---- MODULE Spec2Model ----
(***************************************************************************)
(* coreinject (src/coreinject/main.c): injects binary dump data into a     *)
(* core file at the offsets recorded in a symbol map, with optional        *)
(* --data overrides of the direct data source.                             *)
(*                                                                         *)
(* Strings (paths, idents, command-line arguments) are sequences of        *)
(* one-character strings, so that strrchr/strchr/strncmp/sscanf are        *)
(* computed on the characters as the code computes them.                   *)
(***************************************************************************)
EXTENDS Integers, Sequences, FiniteSets, TLC

VARIABLES
    argv,       \* the command line, argv[0] included (1-based here)
    symmap,     \* the lines of the symbol map file
    core_stat,  \* file-system state of the core path: "unknown" until stat()
    map_stat,   \* file-system state of the symbol map path
    pc,         \* position of main()/inject_data()
    i,          \* main: argv index (C index, argv[0] is the program)
    err,        \* main: accumulated error flag
    options,    \* main: list of struct prog_option, in registration order
    o,          \* main: cursor of the leftover loop (index into options)
    f_core,     \* FILE *f_core: "null", "open", "closed"
    f_symmap,   \* FILE *f_symmap: "null", "open", "closed"
    f_dump,     \* inject_data: the open dump file (its path), or NoFile
    core_filename, \* main: const char *core_filename
    core,       \* bytes of the core file
    dump_list,  \* the global list of struct core_data (head first)
    b_fname,    \* inject_data: the name it was called with
    ident,      \* inject_data: the ident extracted from b_fname
    direct,     \* inject_data: struct ident_data direct
    indirect,   \* inject_data: struct ident_data indirect
    ierr,       \* inject_data: its local err
    io,         \* the library call that made the last write_core fail, "ok"
                \* if none did, "none" outside the transfer
    ret,        \* which loop of main called inject_data: "dumps"/"leftover"
    used,       \* history: options marked processed by this call's check_user_data
    calls,      \* history: the names inject_data was called with, in order
    rets,       \* history: the value each inject_data call returned, in order
    xfers,      \* history: every source open / write_core attempt, in order
    notified,   \* history: number of add_dump_list() invocations
    handed,     \* history: the list add_dump_list() was given
    faults,     \* environment faults injected so far
    status      \* exit status of main, "running" until it returns

vars == << argv, symmap, core_stat, map_stat, pc, i, err, options, o, f_core,
           f_symmap, f_dump, core_filename, core, dump_list, b_fname, ident, direct,
           indirect, ierr, io, ret, used, calls, rets, xfers, notified,
           handed, faults, status >>

-----------------------------------------------------------------------------
(* Bounds of the model *)

MaxOpts == 2        \* leading option arguments on the command line
MaxDumps == 2       \* positional dump-file arguments
MaxFaults == 1      \* environment faults (seek, malloc, I/O) in one run
MaxLines == 3       \* lines of a symbol map in the resolver specification

-----------------------------------------------------------------------------
(* Characters and strings *)

Null == << "NULL" >>            \* a NULL char pointer; equals no string
NoFile == << "NOFILE" >>        \* no open FILE

Max(S) == CHOOSE x \in S : \A y \in S : y <= x
Min(S) == CHOOSE x \in S : \A y \in S : x <= y

\* strrchr(s, c): index of the last c in s, 0 when there is none
strrchr(s, c) ==
    LET hits == { k \in 1..Len(s) : s[k] = c }
    IN  IF hits = {} THEN 0 ELSE Max(hits)

\* strchr(s + from - 1, c): index of the first c at or after from, 0 if none
strchr(s, from, c) ==
    LET hits == { k \in from..Len(s) : s[k] = c }
    IN  IF hits = {} THEN 0 ELSE Min(hits)

\* strncmp(s, p, strlen(p)) == 0
has_prefix(s, p) ==
    /\ Len(s) >= Len(p)
    /\ \A k \in 1..Len(p) : s[k] = p[k]

Digits == << "0", "1", "2", "3", "4", "5", "6", "7", "8", "9" >>

is_digit(c) == \E k \in 1..10 : Digits[k] = c

digit_val(c) == (CHOOSE k \in 1..10 : Digits[k] = c) - 1

\* number of leading decimal digits of s from position from
RECURSIVE digit_run(_, _)
digit_run(s, from) ==
    IF from <= Len(s) /\ is_digit(s[from])
    THEN 1 + digit_run(s, from + 1)
    ELSE 0

RECURSIVE dec_value(_, _, _)
dec_value(s, from, n) ==
    IF n = 0 THEN 0
    ELSE 10 * dec_value(s, from, n - 1) + digit_val(s[from + n - 1])

\* sscanf(s + from - 1, "%zd", &v): [n |-> conversions, v |-> value]
\* (the command lines of this model hold no sign and no leading blanks)
sscanf_zd(s, from) ==
    LET n == digit_run(s, from)
    IN  IF n = 0 THEN [n |-> 0, v |-> 0]
        ELSE [n |-> 1, v |-> dec_value(s, from, n)]

-----------------------------------------------------------------------------
(* struct ident_data after memset(.., 0, ..) *)

zero_ident_data ==
    [ filename |-> Null, ident |-> Null, dump_offset |-> 0,
      core_offset |-> 0, mem_offset |-> 0, size |-> 0 ]

(* get_ident_data: one iteration of the while loop over the map lines.     *)
(* A line of the map is the record of what sscanf and the strchr loop see  *)
(* in it: scanned = the number of fields sscanf converts (0..4), spaces =  *)
(* the number of ' ' the ident search finds (capped at 4), offset/mem/size *)
(* /type = the converted fields, name = the text after the fourth ' '.     *)
\* a plausible slip: the first matching line is kept, later ones are dropped
store_entry_first_wins(d, line, id) ==
    IF d.ident = Null
    THEN [ d EXCEPT !.core_offset = line.offset,
                    !.mem_offset = line.mem,
                    !.size = line.size,
                    !.ident = id ]
    ELSE d

\* lines 201-205: last entry wins in case of duplicates
store_entry(d, line, id) ==
    [ d EXCEPT !.core_offset = line.offset,
               !.mem_offset = line.mem,
               !.size = line.size,
               !.ident = id ]

scan_line(acc, line, id) ==
    IF line.scanned # 4 THEN acc
    ELSE IF line.spaces # 4 THEN acc
    ELSE IF line.name # id THEN acc
    ELSE IF line.type = "D" \/ line.type = "N"
         THEN [ acc EXCEPT !.direct = store_entry(acc.direct, line, id) ]
    ELSE IF line.type = "I"
         THEN [ acc EXCEPT !.indirect = store_entry(acc.indirect, line, id) ]
    ELSE acc

RECURSIVE scan_lines(_, _, _, _)
scan_lines(acc, lines, k, id) ==
    IF k > Len(lines) THEN acc
    ELSE scan_lines(scan_line(acc, lines[k], id), lines, k + 1, id)

\* a plausible slip: the adjustment is left out
adjust_direct_none(r) == r

\* lines 208-211: the direct data follows the indirect data in the dump
adjust_direct(r) ==
    IF r.indirect.size # 0 /\ r.direct.size # 0
    THEN [ r EXCEPT !.direct.dump_offset = @ + r.indirect.size ]
    ELSE r

get_ident_data(id, lines) ==
    LET scanned == scan_lines([ direct |-> zero_ident_data,
                                indirect |-> zero_ident_data ], lines, 1, id)
    IN  [ rc |-> 0 ] @@ adjust_direct(scanned)

-----------------------------------------------------------------------------
(* check_user_data *)

\* a plausible slip: the option's data is used but the option is not marked
take_option_unmarked(d, opts, k) ==
    [ d |-> [ d EXCEPT !.size = opts[k].size,
                       !.dump_offset = opts[k].offset,
                       !.filename = opts[k].filename ],
      options |-> opts ]

\* lines 225-228: the body of the strcmp() match
take_option(d, opts, k) ==
    [ d |-> [ d EXCEPT !.size = opts[k].size,
                       !.dump_offset = opts[k].offset,
                       !.filename = opts[k].filename ],
      options |-> [ opts EXCEPT ![k].processed = 1 ] ]

\* lines 220-230: the for loop, from list position k on; it has no break
RECURSIVE check_user_data_from(_, _, _)
check_user_data_from(d, opts, k) ==
    IF k > Len(opts) THEN [ d |-> d, options |-> opts ]
    ELSE IF opts[k].processed # 0 THEN check_user_data_from(d, opts, k + 1)
    ELSE IF opts[k].ident = d.ident
         THEN LET t == take_option(d, opts, k)
              IN  check_user_data_from(t.d, t.options, k + 1)
    ELSE check_user_data_from(d, opts, k + 1)

check_user_data(d, opts) == check_user_data_from(d, opts, 1)

-----------------------------------------------------------------------------
(* add_option *)

DataPrefix == << "-", "-", "d", "a", "t", "a", "=" >>

\* lines 320-390; oom: calloc or strndup returns NULL
add_option(opts, arg, oom) ==
    LET fail == [ rc |-> -1, options |-> opts ]
        p1 == Len(DataPrefix) + 1
        colon == strchr(arg, p1, ":")
        at == strchr(arg, colon + 1, "@")
        size == sscanf_zd(arg, colon + 1)
        plus == strchr(arg, at + 1, "+")
        offset == sscanf_zd(arg, plus + 1)
    IN  IF ~has_prefix(arg, DataPrefix) THEN fail
        ELSE IF oom THEN fail
        ELSE IF colon = 0 THEN fail
        ELSE IF at = 0 THEN fail
        ELSE IF size.n # 1 THEN fail
        ELSE IF plus = 0 THEN fail
        ELSE IF offset.n # 1 THEN fail
        ELSE [ rc |-> 0,
               options |-> Append(opts,
                   [ processed |-> 0,
                     size |-> size.v,
                     offset |-> offset.v,
                     ident |-> SubSeq(arg, p1, colon - 1),
                     filename |-> SubSeq(arg, at + 1, plus - 1) ]) ]

-----------------------------------------------------------------------------
(* write_core and add_dump_item *)

\* a plausible slip: the new item is linked behind the last one
add_dump_item_tail(list, mem_offset, size, oom) ==
    IF oom THEN list
    ELSE Append(list, [ mem_start |-> mem_offset, start |-> 0, end |-> size ])

\* lines 61-75; the list grows at its head; nothing is added when calloc fails
add_dump_item(list, mem_offset, size, oom) ==
    IF oom THEN list
    ELSE << [ mem_start |-> mem_offset, start |-> 0, end |-> size ] >> \o list

\* a plausible slip: the core is written where its position happens to be,
\* at the start of the file
put_bytes_unseeked(bytes, off, buf) ==
    [ p \in 1..Max({ Len(bytes), Len(buf) }) |->
        IF p <= Len(buf) THEN buf[p] ELSE bytes[p] ]

\* the file bytes after writing buf at byte offset off (a hole reads as 0)
put_bytes(bytes, off, buf) ==
    [ p \in 1..Max({ Len(bytes), off + Len(buf) }) |->
        IF p > off /\ p <= off + Len(buf) THEN buf[p - off]
        ELSE IF p <= Len(bytes) THEN bytes[p]
        ELSE 0 ]

Faults == { "none", "seek_core", "seek_dump", "malloc", "read", "write", "calloc" }

\* a plausible slip: what a short read did get is written to the core
\* before the failure is returned
write_core_partial(bytes, list, dump, d, fault, part) ==
    LET unchanged(res) == [ rc |-> -1, res |-> res, core |-> bytes, list |-> list ]
        buf == SubSeq(dump, d.dump_offset + 1, d.dump_offset + d.size)
        got == SubSeq(dump, d.dump_offset + 1, Len(dump))
    IN  IF fault = "seek_core" THEN unchanged("seek_core")
        ELSE IF fault = "seek_dump" THEN unchanged("seek_dump")
        ELSE IF fault = "malloc" THEN unchanged("malloc")
        ELSE IF fault = "read" \/ d.size = 0 THEN unchanged("read")
        ELSE IF d.dump_offset + d.size > Len(dump)
             THEN [ rc |-> -1, res |-> "read", list |-> list,
                    core |-> put_bytes(bytes, d.core_offset, got) ]
        ELSE IF fault = "write"
             THEN [ rc |-> -1, res |-> "write", list |-> list,
                    core |-> put_bytes(bytes, d.core_offset, SubSeq(buf, 1, part)) ]
        ELSE [ rc |-> 0, res |-> "ok",
               core |-> put_bytes(bytes, d.core_offset, buf),
               list |-> add_dump_item(list, d.mem_offset, d.size, fault = "calloc") ]

\* lines 77-138.  fault: the library call the environment makes fail;
\* part: the bytes a failing fwrite has put into the core before failing.
\* The result holds the new core bytes and the new dump list.
write_core(bytes, list, dump, d, fault, part) ==
    LET unchanged(res) == [ rc |-> -1, res |-> res, core |-> bytes, list |-> list ]
        buf == SubSeq(dump, d.dump_offset + 1, d.dump_offset + d.size)
    IN  IF fault = "seek_core" THEN unchanged("seek_core")
        ELSE IF fault = "seek_dump" THEN unchanged("seek_dump")
        ELSE IF fault = "malloc" THEN unchanged("malloc")
        ELSE IF fault = "read" \/ d.size = 0
                \/ d.dump_offset + d.size > Len(dump) THEN unchanged("read")
        ELSE IF fault = "write"
             THEN [ rc |-> -1, res |-> "write", list |-> list,
                    core |-> put_bytes(bytes, d.core_offset, SubSeq(buf, 1, part)) ]
        ELSE [ rc |-> 0, res |-> "ok",
               core |-> put_bytes(bytes, d.core_offset, buf),
               list |-> add_dump_item(list, d.mem_offset, d.size, fault = "calloc") ]

-----------------------------------------------------------------------------
(* The inputs of a run: command lines, symbol maps and the file system *)

RECURSIVE seqs_upto(_, _)
seqs_upto(S, n) ==
    IF n = 0 THEN { << >> }
    ELSE LET shorter == seqs_upto(S, n - 1)
         IN  shorter \cup { Append(q, x) : q \in shorter, x \in S }

Prog == << "c", "i" >>
CorePath == << "c", "o", "r", "e" >>
MapPath == << "m", "a", "p" >>
Id_a == << "a" >>
Id_b == << "b" >>
Idents == { Id_a, Id_b }

data_arg(id, size, file, off) ==
    DataPrefix \o id \o << ":" >> \o size \o << "@" >> \o file \o << "+" >> \o off

OptArgs ==
    { data_arg(Id_a, << "1" >>, << "x" >>, << "2" >>),    \* --data=a:1@x+2
      data_arg(Id_a, << "0" >>, << "x" >>, << "1" >>),    \* --data=a:0@x+1
      DataPrefix \o Id_a \o << ":", "1", "@", "x" >>,     \* --data=a:1@x
      << "-", "v" >> }                                    \* -v

DumpPaths == { << "a" >>, << "d", "/", "a" >>, << "b" >> }

\* the dump and data files that exist, with their bytes; d/a does not exist
DumpFiles ==
    { [ path |-> << "a" >>, bytes |-> << 11, 12, 13 >> ],
      [ path |-> << "b" >>, bytes |-> << 21 >> ],
      [ path |-> << "x" >>, bytes |-> << 31, 32, 33 >> ] }

file_exists(path) == \E f \in DumpFiles : f.path = path

file_bytes(path) == (CHOOSE f \in DumpFiles : f.path = path).bytes

CoreBytes == << 90, 91, 92, 93, 94, 95 >>

map_line(offset, mem, size, type, name) ==
    [ scanned |-> 4, spaces |-> 4, offset |-> offset, mem |-> mem,
      size |-> size, type |-> type, name |-> name ]

Line_Da == map_line(1, 7, 2, "D", Id_a)
Line_Ia == map_line(4, 9, 1, "I", Id_a)
Line_Nb == map_line(3, 8, 2, "N", Id_b)

\* the symbol maps of the runs
RunMaps ==
    { << Line_Nb >>, << Line_Da >>, << Line_Ia >>,
      << Line_Da, Line_Ia, Line_Nb >> }

CommandLines ==
    { << Prog >> \o opts \o rest :
        opts \in seqs_upto(OptArgs, MaxOpts),
        rest \in { << >>, << CorePath >> }
                 \cup { << CorePath, MapPath >> \o dumps :
                          dumps \in seqs_upto(DumpPaths, MaxDumps) } }

-----------------------------------------------------------------------------
(* main *)

argc == Len(argv)

\* argv[k] of the C program
Arg(k) == argv[k + 1]

\* line 408-410: the loop goes on while i < argc and argv[i][0] == '-'
is_option(k) ==
    IF k < argc
    THEN (IF Len(Arg(k)) > 0 THEN Arg(k)[1] = "-" ELSE FALSE)
    ELSE FALSE

\* a plausible slip: int err = 0, the flag starts clear
Init_err_clear ==
    /\ argv \in CommandLines
    /\ symmap \in RunMaps
    /\ core_stat = "unknown"
    /\ map_stat = "unknown"
    /\ pc = "start"
    /\ i = 0
    /\ err = 0
    /\ options = << >>
    /\ o = 0
    /\ f_core = "null"
    /\ f_symmap = "null"
    /\ f_dump = NoFile
    /\ core_filename = Null
    /\ core = CoreBytes
    /\ dump_list = << >>
    /\ b_fname = Null
    /\ ident = Null
    /\ direct = zero_ident_data
    /\ indirect = zero_ident_data
    /\ ierr = 0
    /\ io = "none"
    /\ ret = "none"
    /\ used = {}
    /\ calls = << >>
    /\ rets = << >>
    /\ xfers = << >>
    /\ notified = 0
    /\ handed = << >>
    /\ faults = 0
    /\ status = "running"

Init ==
    /\ argv \in CommandLines
    /\ symmap \in RunMaps
    /\ core_stat = "unknown"
    /\ map_stat = "unknown"
    /\ pc = "start"
    /\ i = 0
    /\ err = 1
    /\ options = << >>
    /\ o = 0
    /\ f_core = "null"
    /\ f_symmap = "null"
    /\ f_dump = NoFile
    /\ core_filename = Null
    /\ core = CoreBytes
    /\ dump_list = << >>
    /\ b_fname = Null
    /\ ident = Null
    /\ direct = zero_ident_data
    /\ indirect = zero_ident_data
    /\ ierr = 0
    /\ io = "none"
    /\ ret = "none"
    /\ used = {}
    /\ calls = << >>
    /\ rets = << >>
    /\ xfers = << >>
    /\ notified = 0
    /\ handed = << >>
    /\ faults = 0
    /\ status = "running"

frame == << b_fname, ident, direct, indirect, ierr, io, ret, used, f_dump >>
history == << calls, rets, xfers, notified, handed >>
files == << core, core_stat, map_stat >>

\* lines 403-406
main_argc ==
    /\ pc = "start"
    /\ IF argc < 4
       THEN pc' = "out" /\ i' = i
       ELSE pc' = "opts" /\ i' = 1
    /\ UNCHANGED << argv, symmap, err, options, o, f_core, f_symmap,
                    core_filename, dump_list, faults, status >>
    /\ UNCHANGED << frame, history, files >>

\* lines 408-414: one iteration of the option loop
main_option ==
    /\ pc = "opts"
    /\ is_option(i)
    /\ \E oom \in BOOLEAN :
         /\ oom => faults < MaxFaults
         /\ faults' = IF oom THEN faults + 1 ELSE faults
         /\ LET r == add_option(options, Arg(i), oom)
            IN  IF r.rc # 0
                THEN pc' = "out" /\ options' = options /\ i' = i
                ELSE pc' = "opts" /\ options' = r.options /\ i' = i + 1
    /\ UNCHANGED << argv, symmap, err, o, f_core, f_symmap, core_filename,
                    dump_list, status >>
    /\ UNCHANGED << frame, history, files >>

\* lines 416-441: stat and fopen(.., "r+") of the core file
main_core ==
    /\ pc = "opts"
    /\ ~is_option(i)
    /\ IF i = argc
       THEN /\ pc' = "out"
            /\ UNCHANGED << i, f_core, core_filename, core_stat >>
       ELSE \E st \in { "missing", "readonly", "rw" } :
              /\ core_stat' = st
              /\ IF st = "missing"
                 THEN pc' = "out" /\ UNCHANGED << i, f_core, core_filename >>
                 ELSE /\ core_filename' = Arg(i)
                      /\ IF st = "readonly"
                         THEN pc' = "out" /\ UNCHANGED << i, f_core >>
                         ELSE /\ f_core' = "open"
                              /\ i' = i + 1
                              /\ pc' = IF i + 1 = argc THEN "out" ELSE "symmap"
    /\ UNCHANGED << argv, symmap, err, options, o, f_symmap, dump_list,
                    faults, status, core, map_stat >>
    /\ UNCHANGED << frame, history >>

\* lines 443-451
main_symmap ==
    /\ pc = "symmap"
    /\ \E st \in { "missing", "readable" } :
         /\ map_stat' = st
         /\ IF st = "missing"
            THEN pc' = "out" /\ UNCHANGED << f_symmap, err >>
            ELSE pc' = "dumps" /\ f_symmap' = "open" /\ err' = 0
    /\ UNCHANGED << argv, symmap, i, options, o, f_core, core_filename,
                    dump_list, faults, status, core, core_stat >>
    /\ UNCHANGED << frame, history >>

\* the entry of inject_data(f_core, f_symmap, name, options)
call_inject(name, from) ==
    /\ pc' = "inject"
    /\ b_fname' = name
    /\ ret' = from
    /\ ierr' = 0
    /\ ident' = Null
    /\ direct' = zero_ident_data
    /\ indirect' = zero_ident_data
    /\ used' = {}
    /\ calls' = Append(calls, name)
    /\ UNCHANGED << f_dump, io, rets, xfers, notified, handed >>

\* lines 453-457: one iteration of the loop over argv
main_dumps ==
    /\ pc = "dumps"
    /\ IF i < argc
       THEN call_inject(Arg(i), "dumps") /\ o' = o
       ELSE pc' = "leftover" /\ o' = 1 /\ UNCHANGED << frame, history >>
    /\ UNCHANGED << argv, symmap, i, err, options, f_core, f_symmap,
                    core_filename, dump_list, faults, status >>
    /\ UNCHANGED files

\* lines 459-466: one iteration of the loop over the options
main_leftover ==
    /\ pc = "leftover"
    /\ IF o > Len(options)
       THEN pc' = "out" /\ o' = o /\ UNCHANGED << frame, history >>
       ELSE IF options[o].processed # 0
       THEN pc' = "leftover" /\ o' = o + 1 /\ UNCHANGED << frame, history >>
       ELSE call_inject(options[o].ident, "leftover") /\ o' = o
    /\ UNCHANGED << argv, symmap, i, err, options, f_core, f_symmap,
                    core_filename, dump_list, faults, status >>
    /\ UNCHANGED files

-----------------------------------------------------------------------------
(* inject_data *)

\* lines 244-248: the ident is the text after the last '/'
ident_of(name) ==
    LET slash == strrchr(name, "/")
    IN  IF slash # 0 THEN SubSeq(name, slash + 1, Len(name)) ELSE name

\* lines 258-261: the source of the direct data
direct_source(d, opts, name) ==
    check_user_data([ d EXCEPT !.filename = name ], opts)

\* a plausible slip: the indirect data is open to --data as well
indirect_source_checked(d, opts, name) ==
    check_user_data([ d EXCEPT !.filename = name ], opts)

\* line 278: the source of the indirect data
indirect_source(d, opts, name) ==
    [ d |-> [ d EXCEPT !.filename = name ], options |-> opts ]

\* the options a check_user_data call has marked
marked(before, after) ==
    { k \in 1..Len(before) : before[k].processed = 0 /\ after[k].processed # 0 }

xfer(d, is_direct, taken, res) ==
    [ call |-> Len(calls), direct |-> is_direct, ident |-> d.ident,
      filename |-> d.filename, dump_offset |-> d.dump_offset,
      core_offset |-> d.core_offset, mem_offset |-> d.mem_offset,
      size |-> d.size, used |-> taken, res |-> res ]

\* a plausible slip: the call returns once the direct step is over
after_direct_return(ind) == "return"

\* line 277: the indirect step is entered if (indirect.size > 0)
after_direct(ind) == IF ind.size > 0 THEN "indirect" ELSE "return"

\* lines 243-257
inject_resolve ==
    /\ pc = "inject"
    /\ LET id == ident_of(b_fname)
           r == get_ident_data(id, symmap)
       IN  /\ ident' = id
           /\ IF r.rc # 0
              THEN /\ ierr' = -1
                   /\ pc' = "return"
                   /\ UNCHANGED << direct, indirect >>
              ELSE /\ direct' = r.direct
                   /\ indirect' = r.indirect
                   /\ pc' = IF r.direct.size > 0 THEN "direct"
                            ELSE after_direct(r.indirect)
                   /\ ierr' = ierr
    /\ UNCHANGED << argv, symmap, i, err, options, o, f_core, f_symmap,
                    core_filename, dump_list, faults, status, b_fname, ret,
                    used, f_dump, io >>
    /\ UNCHANGED << history, files >>

\* lines 257-269, and the open at 277-286: fopen(d.filename, "r")
open_source(s, is_direct, next) ==
    /\ options' = s.options
    /\ used' = used \cup marked(options, s.options)
    /\ IF file_exists(s.d.filename)
       THEN /\ f_dump' = s.d.filename
            /\ pc' = next
            /\ UNCHANGED << ierr, xfers >>
       ELSE /\ ierr' = -1
            /\ pc' = "return"
            /\ xfers' = Append(xfers, xfer(s.d, is_direct,
                                    used \cup marked(options, s.options), "open"))
            /\ f_dump' = f_dump

inject_direct_open ==
    /\ pc = "direct"
    /\ LET s == direct_source(direct, options, b_fname)
       IN  direct' = s.d /\ open_source(s, TRUE, "direct_write")
    /\ UNCHANGED << argv, symmap, i, err, o, f_core, f_symmap, core_filename,
                    dump_list, faults, status, b_fname, ident, indirect, ret,
                    calls, rets, notified, handed, io >>
    /\ UNCHANGED files

\* err |= write_core(f_core, f_dump, d, ..) at lines 272 and 289.  The log
\* keeps whether the transfer succeeded; io names the call that failed.
do_write_core(d, is_direct, next) ==
    \E fault \in Faults :
    \E part \in 0..(IF fault = "write" /\ d.size > 0 THEN d.size - 1 ELSE 0) :
        LET r == write_core(core, dump_list, file_bytes(f_dump), d, fault, part)
        IN  /\ fault # "none" => faults < MaxFaults
            /\ fault \in { "none", "calloc" } \/ r.res = fault
            /\ fault = "calloc" => r.res = "ok"
            /\ faults' = IF fault = "none" THEN faults ELSE faults + 1
            /\ core' = r.core
            /\ dump_list' = r.list
            /\ ierr' = IF r.rc # 0 THEN -1 ELSE ierr
            /\ io' = r.res
            /\ xfers' = Append(xfers, xfer(d, is_direct, used,
                                    IF r.rc = 0 THEN "ok" ELSE "failed"))
            /\ pc' = next

inject_direct_write ==
    /\ pc = "direct_write"
    /\ do_write_core(direct, TRUE, "direct_close")
    /\ UNCHANGED << argv, symmap, i, err, options, o, f_core, f_symmap,
                    core_filename, status, b_fname, ident, direct, indirect,
                    ret, used, f_dump, calls, rets, notified, handed,
                    core_stat, map_stat >>

\* a plausible slip: the fclose of the direct step is missing
inject_direct_close_leak ==
    /\ pc = "direct_close"
    /\ f_dump' = f_dump
    /\ io' = "none"
    /\ pc' = after_direct(indirect)
    /\ UNCHANGED << argv, symmap, i, err, options, o, f_core, f_symmap,
                    core_filename, dump_list, faults, status, b_fname, ident,
                    direct, indirect, ierr, ret, used >>
    /\ UNCHANGED << history, files >>

\* lines 274-277
inject_direct_close ==
    /\ pc = "direct_close"
    /\ f_dump' = NoFile
    /\ io' = "none"
    /\ pc' = after_direct(indirect)
    /\ UNCHANGED << argv, symmap, i, err, options, o, f_core, f_symmap,
                    core_filename, dump_list, faults, status, b_fname, ident,
                    direct, indirect, ierr, ret, used >>
    /\ UNCHANGED << history, files >>

inject_indirect_open ==
    /\ pc = "indirect"
    /\ LET s == indirect_source(indirect, options, b_fname)
       IN  indirect' = s.d /\ open_source(s, FALSE, "indirect_write")
    /\ UNCHANGED << argv, symmap, i, err, o, f_core, f_symmap, core_filename,
                    dump_list, faults, status, b_fname, ident, direct, ret,
                    calls, rets, notified, handed, io >>
    /\ UNCHANGED files

inject_indirect_write ==
    /\ pc = "indirect_write"
    /\ do_write_core(indirect, FALSE, "indirect_close")
    /\ UNCHANGED << argv, symmap, i, err, options, o, f_core, f_symmap,
                    core_filename, status, b_fname, ident, direct, indirect,
                    ret, used, f_dump, calls, rets, notified, handed,
                    core_stat, map_stat >>

\* line 291
inject_indirect_close ==
    /\ pc = "indirect_close"
    /\ f_dump' = NoFile
    /\ io' = "none"
    /\ pc' = "return"
    /\ UNCHANGED << argv, symmap, i, err, options, o, f_core, f_symmap,
                    core_filename, dump_list, faults, status, b_fname, ident,
                    direct, indirect, ierr, ret, used >>
    /\ UNCHANGED << history, files >>

\* a plausible slip: the flag is assigned, not or-ed
accumulate_last(e, rc) == IF rc # 0 THEN 1 ELSE 0

\* lines 455-456 and 464-465: if (inject_data(..) != 0) err |= 1;
accumulate(e, rc) == IF rc # 0 THEN (IF e % 2 = 1 THEN e ELSE e + 1) ELSE e

\* the return of inject_data into the loop of main that called it
inject_return ==
    /\ pc = "return"
    /\ rets' = Append(rets, ierr)
    /\ err' = accumulate(err, ierr)
    /\ IF ret = "dumps"
       THEN pc' = "dumps" /\ i' = i + 1 /\ o' = o
       ELSE pc' = "leftover" /\ o' = o + 1 /\ i' = i
    /\ UNCHANGED << argv, symmap, options, f_core, f_symmap, core_filename,
                    dump_list, faults, status, calls, xfers, notified, handed >>
    /\ UNCHANGED << frame, files >>

-----------------------------------------------------------------------------
(* the end of main *)

\* lines 467-472
main_out ==
    /\ pc = "out"
    /\ f_core' = IF f_core = "open" THEN "closed" ELSE f_core
    /\ f_symmap' = IF f_symmap = "open" THEN "closed" ELSE f_symmap
    /\ options' = << >>
    /\ pc' = "notify"
    /\ UNCHANGED << argv, symmap, i, err, o, core_filename, dump_list, faults,
                    status >>
    /\ UNCHANGED << frame, history, files >>

\* a plausible slip: the list is handed on whatever the flag
notify_gate_open(e) == TRUE

\* line 474
notify_gate(e) == e = 0

\* lines 474-495: add_dump_list() if the run had no error, then the list is
\* freed and main returns err.  open(core_filename, O_RDWR) succeeds on the
\* file that fopen(.., "r+") has opened.
main_notify ==
    /\ pc = "notify"
    /\ IF notify_gate(err) /\ core_stat = "rw"
       THEN notified' = notified + 1 /\ handed' = dump_list
       ELSE UNCHANGED << notified, handed >>
    /\ dump_list' = << >>
    /\ status' = err
    /\ pc' = "done"
    /\ UNCHANGED << argv, symmap, i, err, options, o, f_core, f_symmap,
                    core_filename, faults, calls, rets, xfers >>
    /\ UNCHANGED << frame, files >>

Next ==
    \/ main_argc
    \/ main_option
    \/ main_core
    \/ main_symmap
    \/ main_dumps
    \/ main_leftover
    \/ inject_resolve
    \/ inject_direct_open
    \/ inject_direct_write
    \/ inject_direct_close
    \/ inject_indirect_open
    \/ inject_indirect_write
    \/ inject_indirect_close
    \/ inject_return
    \/ main_out
    \/ main_notify

Spec == Init /\ [][Next]_vars

-----------------------------------------------------------------------------
(* The resolver on its own: get_ident_data applied to any map of up to     *)
(* MaxLines lines and any ident.                                           *)

ResolveLines ==
    { Line_Da,
      Line_Ia,
      map_line(2, 8, 3, "N", Id_a),
      map_line(5, 6, 2, "I", Id_a),
      map_line(0, 5, 0, "D", Id_a),                 \* a line of size 0
      map_line(3, 3, 3, "X", Id_a),                 \* a kind that is ignored
      map_line(3, 8, 2, "D", Id_b),
      [ map_line(6, 6, 6, "D", Id_a) EXCEPT !.scanned = 3 ],
      [ map_line(6, 6, 6, "I", Null) EXCEPT !.spaces = 3 ] }

InitResolve ==
    /\ argv = << Prog >>
    /\ symmap \in seqs_upto(ResolveLines, MaxLines)
    /\ core_stat = "unknown"
    /\ map_stat = "readable"
    /\ pc = "resolve"
    /\ i = 0
    /\ err = 0
    /\ options = << >>
    /\ o = 0
    /\ f_core = "null"
    /\ f_symmap = "open"
    /\ f_dump = NoFile
    /\ core_filename = Null
    /\ core = CoreBytes
    /\ dump_list = << >>
    /\ b_fname = Null
    /\ ident = Null
    /\ direct = zero_ident_data
    /\ indirect = zero_ident_data
    /\ ierr = 0
    /\ io = "none"
    /\ ret = "none"
    /\ used = {}
    /\ calls = << >>
    /\ rets = << >>
    /\ xfers = << >>
    /\ notified = 0
    /\ handed = << >>
    /\ faults = 0
    /\ status = "running"

\* get_ident_data(id, f_symmap, &direct, &indirect)
resolve ==
    /\ pc = "resolve"
    /\ \E id \in Idents :
         LET r == get_ident_data(id, symmap)
         IN  /\ ident' = id
             /\ direct' = r.direct
             /\ indirect' = r.indirect
             /\ ierr' = r.rc
    /\ pc' = "resolved"
    /\ UNCHANGED << argv, symmap, i, err, options, o, f_core, f_symmap,
                    core_filename, dump_list, faults, status, b_fname, ret,
                    used, f_dump, io >>
    /\ UNCHANGED << history, files >>

NextResolve == resolve

SpecResolve == InitResolve /\ [][NextResolve]_vars

-----------------------------------------------------------------------------
(* What the symbol map says about an ident, stated on the lines *)

\* the well-formed lines of the map for ident id whose kind is in kinds
matching(lines, id, kinds) ==
    { k \in 1..Len(lines) :
        /\ lines[k].scanned = 4
        /\ lines[k].spaces = 4
        /\ lines[k].name = id
        /\ lines[k].type \in kinds }

\* the last of them in file order, as << core offset, address, size >>
last_line(lines, id, kinds) ==
    LET m == matching(lines, id, kinds)
    IN  IF m = {} THEN << 0, 0, 0 >>
        ELSE << lines[Max(m)].offset, lines[Max(m)].mem, lines[Max(m)].size >>

map_direct(id) == last_line(symmap, id, { "D", "N" })
map_indirect(id) == last_line(symmap, id, { "I" })

placed(d) == << d.core_offset, d.mem_offset, d.size >>

-----------------------------------------------------------------------------
(* Claims *)

\* C7: resolve returns as the direct placement the core offset, memory
\* address and size of the last line in file order whose ident matches and
\* whose kind is D or N, and as the indirect placement those of the last
\* matching line of kind I; earlier matching lines, lines of another kind
\* and lines of another ident have no effect; a kind with no matching line
\* yields size 0.
C7_LastLineWins ==
    pc = "resolved" =>
        /\ placed(direct) = map_direct(ident)
        /\ placed(indirect) = map_indirect(ident)
        /\ matching(symmap, ident, { "D", "N" }) = {} => direct.size = 0
        /\ matching(symmap, ident, { "I" }) = {} => indirect.size = 0

\* C7 witness: a resolved ident with two differing direct lines, the last of
\* which was returned, next to a line of an ignored kind or another ident
C7_Witness ==
    /\ pc = "resolved"
    /\ \E j, k \in matching(symmap, ident, { "D", "N" }) :
         /\ j < k
         /\ symmap[j].size # symmap[k].size
         /\ direct.size = symmap[k].size
    /\ \E k \in 1..Len(symmap) :
         symmap[k].name # ident \/ symmap[k].type = "X"

\* C8: after resolve the direct placement's source offset equals the final
\* (last-wins) indirect size when the direct size and the indirect size are
\* both greater than 0, and 0 otherwise; the indirect placement's source
\* offset is always 0.
C8_OffsetAdjustment ==
    pc = "resolved" =>
        /\ direct.dump_offset =
             IF map_direct(ident)[3] > 0 /\ map_indirect(ident)[3] > 0
             THEN map_indirect(ident)[3]
             ELSE 0
        /\ indirect.dump_offset = 0

\* C8 witness: both placements exist, two indirect lines of different sizes
\* precede the result, and the direct source offset is the last one's size
C8_Witness ==
    /\ pc = "resolved"
    /\ direct.size > 0
    /\ \E j, k \in matching(symmap, ident, { "I" }) :
         /\ j < k
         /\ symmap[j].size # symmap[k].size
         /\ direct.dump_offset = symmap[k].size
         /\ direct.dump_offset > 0

-----------------------------------------------------------------------------
(* The command line as the usage text reads it *)

\* C index of the core path: the first argument that is no option
core_index == Min({ k \in 1..argc : ~is_option(k) })
map_index == core_index + 1

\* the positional dump-file arguments, in command-line order
dump_args == [ c \in 1..(argc - 1 - map_index) |-> Arg(map_index + c) ]

\* main got past the fatal errors: the core file and the map were opened
opened == f_symmap # "null"

\* the option list is allocated (free_options has not run)
live == pc \notin { "notify", "done" }

absent(id) == map_direct(id)[3] = 0 /\ map_indirect(id)[3] = 0

\* every positional dump file has had its inject call, in order
dumps_called ==
    \E off \in 0..Len(calls) :
        /\ off + Len(dump_args) <= Len(calls)
        /\ \A c \in 1..Len(dump_args) : calls[off + c] = dump_args[c]

\* C1: for every ident absent from the symbol map the inject call reports a
\* failure, the run still processes every remaining dump file and
\* unconsumed override, and the final exit status is nonzero.  (Stated for
\* the calls made for dump files and overrides, i.e. from the second on.)
C1_AbsentIdentFails ==
    /\ \A c \in 2..Len(rets) : absent(ident_of(calls[c])) => rets[c] # 0
    /\ pc = "done" /\ opened => dumps_called
    /\ pc = "done" /\ (\E c \in 2..Len(calls) : absent(ident_of(calls[c])))
         => status # 0

\* the override k is the only one registered for its ident
sole(k) == \A j \in 1..Len(options) : j # k => options[j].ident # options[k].ident

\* the direct steps logged for ident id
direct_steps(id) ==
    { e \in 1..Len(xfers) : xfers[e].direct /\ xfers[e].ident = id }

C2_State ==
    live =>
    \A k \in 1..Len(options) : sole(k) =>
        LET D == direct_steps(options[k].ident)
        IN  \A e \in D :
              IF e = Min(D)
              THEN /\ k \in xfers[e].used
                   /\ xfers[e].filename = options[k].filename
                   /\ xfers[e].size = options[k].size
                   /\ xfers[e].dump_offset = options[k].offset
              ELSE /\ k \notin xfers[e].used
                   /\ xfers[e].filename = calls[xfers[e].call]
                   /\ xfers[e].size = map_direct(xfers[e].ident)[3]

C2_Step ==
    \A k \in 1..Len(options) :
        options[k].processed # 0 =>
            \/ pc = "out"
            \/ k <= Len(options') /\ options'[k].processed # 0

\* C2: an override is consumed at most once over the whole run and its
\* consumed flag is never reset: with one override registered for ident X,
\* of the direct steps that resolve to X the first uses the override's
\* source, size and offset and every other one uses its own positionally
\* supplied file.
C2_ConsumedOnce == [] C2_State /\ [][C2_Step]_vars

\* C2 witness: one override for X, two direct steps for X; the first used
\* the override, the second its own file
C2_Witness ==
    /\ live
    /\ \E k \in 1..Len(options) :
         /\ sole(k)
         /\ \E e1, e2 \in direct_steps(options[k].ident) :
              /\ e1 < e2
              /\ xfers[e1].filename = options[k].filename
              /\ xfers[e1].res = "ok"
              /\ xfers[e2].filename = calls[xfers[e2].call]
              /\ xfers[e2].filename # options[k].filename
              /\ xfers[e2].res = "ok"

\* the unconsumed overrides whose ident is that of placement d
candidates(d) ==
    { k \in 1..Len(options) :
        options[k].processed = 0 /\ options[k].ident = d.ident }

\* C3: when several unconsumed overrides share the ident of a direct
\* placement, one apply step uses the first-registered of them, marks only
\* that one consumed and leaves every later one unconsumed; when none
\* matches, the placement and all overrides are unchanged.
C3_FirstMatchOnly ==
    [][ pc = "direct" =>
          LET given == [ direct EXCEPT !.filename = b_fname ]
              M == candidates(direct)
          IN  IF M = {}
              THEN options' = options /\ direct' = given
              ELSE /\ options' = [ options EXCEPT ![Min(M)].processed = 1 ]
                   /\ direct' = [ given EXCEPT
                                    !.size = options[Min(M)].size,
                                    !.dump_offset = options[Min(M)].offset,
                                    !.filename = options[Min(M)].filename ]
      ]_vars

C5_CallSequence ==
    live =>
    \A c \in 1..Len(calls) :
        IF c <= Len(dump_args)
        THEN calls[c] = dump_args[c]
        ELSE \E k \in 1..Len(options) : calls[c] = options[k].ident

\* C6: once the core file and the map are open, every positional dump file
\* and every override still unconsumed in the final pass gets its inject
\* call whatever the earlier calls returned, and the exit status is nonzero
\* if and only if some inject call reported a failure; the flag is never
\* cleared.
C6_Isolation ==
    opened =>
        /\ (err # 0) <=> (\E c \in 1..Len(rets) : rets[c] # 0)
        /\ pc \in { "leftover", "out", "notify", "done" } => dumps_called
        /\ pc = "out" =>
             \A k \in 1..Len(options) :
                \/ options[k].processed # 0
                \/ \E c \in (Len(dump_args) + 1)..Len(calls) :
                      calls[c] = options[k].ident
        /\ pc = "done" =>
             ((status # 0) <=> (\E c \in 1..Len(rets) : rets[c] # 0))

\* C6 witness: a finished run in which a call failed, a later call for a
\* dump file succeeded in a transfer and a leftover override had its call
C6_Witness ==
    /\ pc = "done"
    /\ status # 0
    /\ \E c \in 1..Len(rets) :
         /\ rets[c] # 0
         /\ \E e \in 1..Len(xfers) : xfers[e].call > c /\ xfers[e].res = "ok"
    /\ Len(calls) > 1 + Len(dump_args)
    /\ rets[Len(rets)] = 0

\* C9: when an unconsumed override matches an ident that has a direct
\* placement, the direct transfer reads exactly the override's size bytes
\* from the override's file at exactly the override's offset and writes
\* them at the map's core offset.
C9_OverrideSource ==
    live =>
    \A e \in 1..Len(xfers) :
        xfers[e].direct /\ xfers[e].res # "open" =>
            \A k \in xfers[e].used :
                /\ xfers[e].filename = options[k].filename
                /\ xfers[e].size = options[k].size
                /\ xfers[e].dump_offset = options[k].offset
                /\ xfers[e].core_offset = map_direct(xfers[e].ident)[1]

\* C10: overrides never affect indirect placements: an indirect transfer
\* reads the map's indirect size bytes from offset 0 of the path passed to
\* inject, also when the direct placement of the same call consumed an
\* override; a call for an ident with only an indirect placement consumes
\* no override.
C10_IndirectNotOverridden ==
    /\ \A e \in 1..Len(xfers) :
         /\ ~xfers[e].direct =>
              /\ xfers[e].filename = calls[xfers[e].call]
              /\ xfers[e].dump_offset = 0
              /\ xfers[e].size = map_indirect(xfers[e].ident)[3]
              /\ xfers[e].core_offset = map_indirect(xfers[e].ident)[1]
         /\ map_direct(xfers[e].ident)[3] = 0 => xfers[e].used = {}
    /\ pc \in { "indirect", "indirect_write", "indirect_close", "return" }
         /\ map_direct(ident)[3] = 0 => used = {}

\* C10 witness: an indirect transfer from the positional file in a call
\* whose direct placement consumed an override with another source
C10_Witness ==
    /\ live
    /\ \E e \in 1..Len(xfers) :
         /\ ~xfers[e].direct
         /\ xfers[e].res = "ok"
         /\ \E k \in xfers[e].used :
              /\ options[k].filename # xfers[e].filename
              /\ options[k].size # xfers[e].size


\* the transfer that the write step taken last has logged
last_xfer == xfers[Len(xfers)]

\* the state right after a write_core call, before the dump file is closed
written == pc \in { "direct_close", "indirect_close" }

\* what a write step that succeeds does to the core
C11_Step ==
    (pc \in { "direct_write", "indirect_write" } /\ io' = "ok") =>
        LET d == IF pc = "direct_write" THEN direct ELSE indirect
            src == file_bytes(f_dump)
        IN  /\ Len(core') = Max({ Len(core), d.core_offset + d.size })
            /\ \A k \in 1..d.size :
                 core'[d.core_offset + k] = src[d.dump_offset + k]
            /\ \A p \in 1..Len(core) :
                 (p <= d.core_offset \/ p > d.core_offset + d.size)
                     => core'[p] = core[p]

\* C11: a transfer that succeeds leaves in the core, from the placement's
\* core offset on, the size bytes that the source file holds from the
\* placement's source offset on, and leaves every other byte of the core
\* as it was before the transfer.
C11_TransferCopies == [][C11_Step]_vars

\* C11 witness: a transfer has succeeded, from a source offset other than 0
\* to a core offset other than 0, and has changed the core
C11_Witness ==
    /\ written
    /\ io = "ok"
    /\ last_xfer.dump_offset > 0
    /\ last_xfer.core_offset > 0
    /\ core # CoreBytes


\* a fatal error, stated on what the run was given: fewer than four
\* arguments, a leading option that add_option rejects, no core or symbol
\* map argument after the options, a core file that is missing or cannot be
\* opened read-write, or a symbol map that cannot be opened
bad_option(k) ==
    /\ k < argc
    /\ \A j \in 1..k : is_option(j)
    /\ add_option(<< >>, Arg(k), FALSE).rc # 0

fatal ==
    \/ argc < 4
    \/ \E k \in 1..(argc - 1) : bad_option(k)
    \/ map_index >= argc
    \/ core_stat \in { "missing", "readonly" }
    \/ map_stat = "missing"

ended == pc \in { "out", "notify", "done" }

\* C12: a run with a fatal error ends before the symbol map is in use, and
\* a run that ends so has made no inject call and no transfer, has left the
\* core's bytes as they were, has an empty Ledger, does not invoke the
\* notification and exits with a nonzero status.
C12_FatalStops ==
    /\ (ended /\ fatal) => ~ opened
    /\ (ended /\ ~ opened) =>
          /\ err # 0
          /\ calls = << >>
          /\ xfers = << >>
          /\ core = CoreBytes
          /\ dump_list = << >>
          /\ notified = 0
          /\ handed = << >>
          /\ pc = "done" => status # 0

\* C12 witness: a run has ended on a symbol map that cannot be opened, with
\* the core opened read-write and an override registered before
C12_Witness ==
    /\ pc = "done"
    /\ map_stat = "missing"
    /\ core_stat = "rw"
    /\ \E k \in 1..(argc - 1) : is_option(k)
    /\ status = 1


\* the transfers that have completed successfully so far
succeeded == { e \in 1..Len(xfers) : xfers[e].res = "ok" }

\* the memory address the map gives for the placement of a transfer
map_address(t) ==
    IF t.direct THEN map_direct(t.ident)[2] ELSE map_indirect(t.ident)[2]

\* the region that a successful transfer is to leave in the Ledger
region_of(t) ==
    [ mem_start |-> map_address(t), start |-> 0, end |-> t.size ]

\* C13: until the list is freed at the end of the run, the Ledger holds
\* one region per transfer that has succeeded so far and no other: as many
\* entries as successful transfers, and every region occurs in the Ledger as
\* often as successful transfers have produced it (address from the map,
\* start 0, end the number of bytes transferred).
C13_LedgerExact ==
    pc # "done" =>
        /\ Len(dump_list) = Cardinality(succeeded)
        /\ \A e \in succeeded :
             Cardinality({ k \in 1..Len(dump_list) :
                             dump_list[k] = region_of(xfers[e]) })
               = Cardinality({ g \in succeeded :
                                 region_of(xfers[g]) = region_of(xfers[e]) })


\* the regions of the successful transfers, in the order of their completion
RECURSIVE regions_from(_)
regions_from(e) ==
    IF e > Len(xfers) THEN << >>
    ELSE (IF xfers[e].res = "ok" THEN << region_of(xfers[e]) >> ELSE << >>)
         \o regions_from(e + 1)

completed == regions_from(1)

reversed(q) == [ k \in 1..Len(q) |-> q[Len(q) + 1 - k] ]

\* a, from its element j on, can be had from b, from its element k on, by
\* leaving elements out
RECURSIVE within(_, _, _, _)
within(a, j, b, k) ==
    IF j > Len(a) THEN TRUE
    ELSE IF k > Len(b) THEN FALSE
    ELSE IF a[j] = b[k] THEN within(a, j + 1, b, k + 1)
    ELSE within(a, j, b, k + 1)

a_write == pc \in { "direct_write", "indirect_write" }

\* a step that keeps the Ledger or adds one region at its end
C14_AppendStep ==
    pc # "notify" =>
        \/ dump_list' = dump_list
        \/ /\ a_write
           /\ io' = "ok"
           /\ dump_list' = Append(dump_list, region_of(xfers'[Len(xfers')]))

C14_AppendOrder == notified > 0 => within(handed, 1, completed, 1)

C14_HeadStep ==
    pc # "notify" =>
        \/ dump_list' = dump_list
        \/ /\ a_write
           /\ io' = "ok"
           /\ dump_list' = << region_of(xfers'[Len(xfers')]) >> \o dump_list

latest_first(list) ==
    /\ within(reversed(list), 1, completed, 1)
    /\ Len(list) >= Len(completed) - faults

C14_HeadOrder ==
    /\ pc # "done" => latest_first(dump_list)
    /\ notified > 0 => latest_first(handed)

steps == { e \in 1..Len(xfers) : xfers[e].call = Len(calls) }

\* the map places the ident both directly and indirectly
both_placed(id) == map_direct(id)[3] > 0 /\ map_indirect(id)[3] > 0

\* C15: when an inject call for an ident with a direct and an indirect
\* placement returns, it has made exactly two steps, the direct one first
\* and the indirect one second, whatever the outcome of the direct one
\* (source not opened, seek, read or write failure), and it returns nonzero
\* exactly when one of the two failed.
C15_BothSteps ==
    (pc = "return" /\ both_placed(ident)) =>
        /\ \E e, g \in steps :
             /\ e < g
             /\ steps = { e, g }
             /\ xfers[e].direct
             /\ ~ xfers[g].direct
        /\ ierr # 0 <=> \E e \in steps : xfers[e].res # "ok"


\* C15, amended: when an inject call for an ident with a direct and an
\* indirect placement returns, its first step is the direct one.  If the
\* direct source could not be opened the call has made no other step and
\* returns nonzero; otherwise the direct transfer was attempted and,
\* whatever its outcome (seek, allocation, read or write failure), the
\* indirect step follows as the second and last step.  The call returns
\* nonzero exactly when one of its steps failed.
C15_DirectThenIndirect ==
    (pc = "return" /\ both_placed(ident)) =>
        /\ steps # {}
        /\ LET e == Min(steps)
           IN  /\ xfers[e].direct
               /\ IF xfers[e].res = "open"
                  THEN steps = { e } /\ ierr # 0
                  ELSE \E g \in steps :
                         /\ e < g
                         /\ steps = { e, g }
                         /\ ~ xfers[g].direct
        /\ ierr # 0 <=> \E e \in steps : xfers[e].res # "ok"

\* C15 witness: a call returns nonzero after a direct transfer that failed
\* and an indirect transfer that succeeded
C15_Witness ==
    /\ pc = "return"
    /\ both_placed(ident)
    /\ ierr # 0
    /\ \E e, g \in steps :
         /\ e < g
         /\ xfers[e].direct
         /\ xfers[e].res = "failed"
         /\ ~ xfers[g].direct
         /\ xfers[g].res = "ok"


\* the successful direct transfers that took override k and used its file,
\* offset and size
injections(k) ==
    { e \in 1..Len(xfers) :
        /\ xfers[e].direct
        /\ xfers[e].res = "ok"
        /\ k \in xfers[e].used
        /\ xfers[e].filename = options[k].filename
        /\ xfers[e].dump_offset = options[k].offset
        /\ xfers[e].size = options[k].size }

\* C16: when main reaches its end with err = 0, the status it will exit
\* with, every registered override is marked consumed and exactly one
\* successful direct transfer has used its file, offset and size; so a run
\* with an override that was never injected does not exit with 0.
C16_ExitZeroAllInjected ==
    (pc = "out" /\ err = 0) =>
        \A k \in 1..Len(options) :
            /\ options[k].processed # 0
            /\ Cardinality(injections(k)) = 1


\* what a write step that fails leaves as it was
C17_Step ==
    a_write =>
        /\ io' \in { "seek_core", "seek_dump", "malloc", "read" } =>
              core' = core /\ dump_list' = dump_list
        /\ io' = "write" => dump_list' = dump_list
        /\ io' # "ok" => ierr' # 0

\* C17: a transfer that fails at the seek in the core, the seek in the
\* dump, the allocation of the buffer or the read (a source that holds
\* fewer than size bytes from the source offset included) leaves every byte
\* of the core and the Ledger as they were; a transfer that fails at the
\* write leaves the Ledger as it was.
C17_FailedTransferFrame == [][C17_Step]_vars

\* C17 witness: a transfer of two bytes has failed at the read, with no
\* failure of a library call, on a source that holds one byte
C17_Witness ==
    /\ written
    /\ io = "read"
    /\ faults = 0
    /\ last_xfer.res = "failed"
    /\ last_xfer.size > 0
    /\ Len(file_bytes(f_dump)) > last_xfer.dump_offset
    /\ Len(file_bytes(f_dump)) < last_xfer.dump_offset + last_xfer.size


\* C18: no placement is handed to write_core with size 0: while a source is
\* open for its transfer the placement's size is greater than 0, and so is
\* the size of every transfer logged, also when an override has set it.
C18_NoZeroTransfer ==
    /\ pc = "direct_write" => direct.size > 0
    /\ pc = "indirect_write" => indirect.size > 0
    /\ \A e \in 1..Len(xfers) : xfers[e].res # "open" => xfers[e].size > 0


\* a dump file is open for its transfer
in_transfer ==
    pc \in { "direct_write", "direct_close", "indirect_write", "indirect_close" }

\* main is between the opening of the symbol map and its label out
in_run ==
    pc \in { "dumps", "leftover", "inject", "direct", "direct_write",
             "direct_close", "indirect", "indirect_write", "indirect_close",
             "return" }

\* a handle of main changes from not opened to open or from open to closed
opens(h, g) == h = "null" /\ g = "open"
closes(h, g) == h = "open" /\ g = "closed" /\ pc = "out"

\* where in the run which file is open
C19_State ==
    /\ f_dump # NoFile <=> in_transfer
    /\ in_run => f_core = "open" /\ f_symmap = "open"
    /\ pc \in { "notify", "done" } => f_core # "open" /\ f_symmap # "open"

C19_Step ==
    /\ f_dump' # f_dump =>
         \/ /\ pc \in { "direct", "indirect" }
            /\ f_dump = NoFile
            /\ pc' \in { "direct_write", "indirect_write" }
         \/ /\ pc \in { "direct_close", "indirect_close" }
            /\ f_dump' = NoFile
    /\ f_core' # f_core => opens(f_core, f_core') \/ closes(f_core, f_core')
    /\ f_symmap' # f_symmap =>
         opens(f_symmap, f_symmap') \/ closes(f_symmap, f_symmap')

\* C19: a dump file is open exactly from the open of a step to the close
\* that follows its transfer, on success and on failure; none is open when a
\* step opens its source, when inject returns or when the run ends; one is
\* opened only right before its transfer and closed only by the close that
\* comes after the transfer.
\* The core and the symbol map are open all through the run, are closed at
\* label out and never change after that.
C19_HandleScopes == [] C19_State /\ [][C19_Step]_vars

\* C19 witness: inside a call whose direct transfer has failed the dump file
\* is closed again, before the indirect step opens its source, with the core
\* and the symbol map still open
C19_Witness ==
    /\ pc = "indirect"
    /\ f_dump = NoFile
    /\ Len(xfers) > 0
    /\ last_xfer.call = Len(calls)
    /\ last_xfer.direct
    /\ last_xfer.res = "failed"
    /\ f_core = "open"
    /\ f_symmap = "open"

====
